---- MODULE Spec2Model ----
(***************************************************************************)
(* Model of the Node Availability Report dashboard (src/app.py): the file  *)
(* locator, the two spreadsheet cleaners, the join and the per-node        *)
(* aggregation that run once at module import, and the filter_data         *)
(* callback that serves the table afterwards.                              *)
(*                                                                         *)
(* A data frame is a set of column names and a sequence of rows; a row is   *)
(* a function from column names to cell values.  Cell values are strings:  *)
(* "NaN" is a missing cell, "NaT" a timestamp that did not parse, "None"   *)
(* Python's None.  An uncaught exception is modelled by its name.          *)
(***************************************************************************)
EXTENDS Integers, Sequences, FiniteSets, TLC

VARIABLES
    pc,             \* position of the module-level startup code
    exc,            \* exception that ended the startup ("" when none)
    file1_path,     \* module global, Unset until assigned
    file2_path,     \* module global, Unset until assigned
    df1_cleaned,    \* module global: cleaned alarm records
    df2_cleaned,    \* module global: cleaned availability records
    merged_df,      \* module global: the left join
    downtime_count, \* module global: the summary table
    stdout,         \* what the startup code printed
    table_data,     \* 'filtered-table'.data: what the callback returned last
    call,           \* arguments of the last filter_data call
    files,          \* directory listing handed to get_latest_file
    pattern,        \* pattern handed to get_latest_file
    located,        \* outcome of the get_latest_file call
    raw1,           \* sheet handed to data1_clean
    raw2            \* sheet handed to data2_clean

vars == <<pc, exc, file1_path, file2_path, df1_cleaned, df2_cleaned, merged_df,
          downtime_count, stdout, table_data, call, files, pattern, located, raw1, raw2>>

None == "None"
NaN == "NaN"
NaT == "NaT"
Unset == <<"<unset>">>

----------------------------------------------------------------------------
(* Bounds of the model. *)
MaxFiles == 2
MaxCtime == 2
MaxAlarmRows == 2
MaxAvailRows == 2
MaxCount == 11

----------------------------------------------------------------------------
(* Sequence helpers. *)

Range(s) == {s[i] : i \in 1..Len(s)}

SeqsUpTo(S, n) == UNION {[1..k -> S] : k \in 0..n}

RECURSIVE Flatten(_)
Flatten(ss) == IF ss = <<>> THEN <<>> ELSE Head(ss) \o Flatten(Tail(ss))

(* Data frames: [columns |-> set of column names, rows |-> sequence of   *)
(* rows], every row a function on the frame's columns.                  *)

EmptyFrame == [columns |-> {}, rows |-> <<>>]

\* column names pandas gives to header cells that are empty, by position
UnnamedColumns == <<"Unnamed: 0", "Unnamed: 1", "Unnamed: 2", "Unnamed: 3",
                    "Unnamed: 4", "Unnamed: 5", "Unnamed: 6">>

\* pd.read_excel(path, skiprows=n): the first n sheet rows are skipped, the
\* next one names the columns, the rest are the data rows
read_excel(sheet, skiprows) ==
    LET rest == SubSeq(sheet, skiprows + 1, Len(sheet))
    IN  IF rest = <<>> THEN EmptyFrame
        ELSE LET header == Head(rest)
                 colName(i) == IF header[i] = NaN THEN UnnamedColumns[i] ELSE header[i]
                 pos(c) == CHOOSE i \in 1..Len(header) : colName(i) = c
                 cols == {colName(i) : i \in 1..Len(header)}
             IN  [columns |-> cols,
                  rows |-> [k \in 1..(Len(rest) - 1) |->
                               [c \in cols |-> rest[k + 1][pos(c)]]]]

\* DataFrame.drop(columns=cols, errors='ignore')
DropColumns(df, cols) ==
    [columns |-> df.columns \ cols,
     rows |-> [k \in 1..Len(df.rows) |-> [c \in df.columns \ cols |-> df.rows[k][c]]]]

\* DataFrame.rename(columns=mapping): mapping is a function on the old names
\* it renames; names it does not mention, or that the frame lacks, are left
RenameColumns(df, mapping) ==
    LET newName(c) == IF c \in DOMAIN mapping THEN mapping[c] ELSE c
        oldName(n) == CHOOSE c \in df.columns : newName(c) = n
        cols == {newName(c) : c \in df.columns}
    IN  [columns |-> cols,
         rows |-> [k \in 1..Len(df.rows) |-> [n \in cols |-> df.rows[k][oldName(n)]]]]

\* DataFrame.dropna(subset=cols); the caller has checked cols are columns
DropNa(df, cols) ==
    [df EXCEPT !.rows = SelectSeq(df.rows, LAMBDA r : \A c \in cols : r[c] \notin {NaN, NaT})]


----------------------------------------------------------------------------
(* File locator: get_latest_file. *)

DownloadsPath == <<"d", "/">>

FileNames == {<<"a">>, <<"a", "b">>, <<"b">>, <<"b", "a">>}

Patterns == {<<"a">>, <<"b">>, <<"a", "b">>, <<"b", "a">>, <<".">>, <<".", "a">>, <<"c">>}

DirEntries == [name : FileNames, ctime : 1..MaxCtime]

\* os.listdir: entries in arbitrary order, names unique within a directory
Listings == {l \in SeqsUpTo(DirEntries, MaxFiles) :
                \A i, j \in 1..Len(l) : i # j => l[i].name # l[j].name}

\* re.match(pattern, name): the pattern has to match at the start of the
\* name, the name may go on after it; "." matches any one character
\* re.fullmatch in place of re.match
re_fullmatch(pat, name) ==
    /\ Len(pat) = Len(name)
    /\ \A i \in 1..Len(pat) : pat[i] = "." \/ pat[i] = name[i]

re_match(pat, name) ==
    /\ Len(pat) <= Len(name)
    /\ \A i \in 1..Len(pat) : pat[i] = "." \/ pat[i] = name[i]

\* max(matched_files, key=getctime): the first entry with the greatest key
MaxByCtime(entries) ==
    LET i == CHOOSE k \in 1..Len(entries) :
                /\ \A j \in 1..Len(entries) : entries[j].ctime <= entries[k].ctime
                /\ \A j \in 1..(k - 1) : entries[j].ctime < entries[k].ctime
    IN  entries[i]

get_latest_file(pat, listing) ==
    LET matched_files == SelectSeq(listing, LAMBDA f : re_match(pat, f.name))
    IN  IF matched_files # <<>>
        THEN [exc |-> "", path |-> DownloadsPath \o MaxByCtime(matched_files).name]
        ELSE [exc |-> "FileNotFoundError", path |-> Unset]

----------------------------------------------------------------------------
(* Alarm log cleaner: data1_clean. *)

SkipRows1 == 5

\* the date parser, cell by cell: two spellings of one instant give one
\* timestamp, text that is no date gives NaT
Timestamp(t) ==
    CASE t \in {"2024-01-01", "2024-01-01 00:00:00"} -> "2024-01-01T00:00:00"
      [] t = "2024-01-02" -> "2024-01-02T00:00:00"
      [] t = "2024-01-03" -> "2024-01-03T00:00:00"
      [] OTHER -> NaT

\* pd.to_datetime(value, errors='coerce'): the parsed timestamp, NaT for a
\* missing cell and for text that is no date
to_datetime(t) == Timestamp(t)

\* df[col] = pd.to_datetime(df[col], errors='coerce')
ToDatetimeColumn(df, col) ==
    [df EXCEPT !.rows = [k \in 1..Len(df.rows) |->
                            [df.rows[k] EXCEPT ![col] = to_datetime(@)]]]

Data1Renames ==
    [c \in {"Unnamed: 0", "Unnamed: 1", "Unnamed: 4", "Unnamed: 6", "Unnamed: 2"} |->
        CASE c = "Unnamed: 0" -> "Sl.no"
          [] c = "Unnamed: 1" -> "IP Address"
          [] c = "Unnamed: 4" -> "Event"
          [] c = "Unnamed: 6" -> "Alarm Time"
          [] c = "Unnamed: 2" -> "Node Alias"]

Data1Dropped == {"Sl.no", "Clear Time", "Duration", "Description", "Host Name"}

\* data1_clean without the dropna that follows the conversion
data1_clean_keep_nat(sheet) ==
    LET df0 == read_excel(sheet, SkipRows1)
        df1 == RenameColumns(df0, Data1Renames)
        df2 == DropColumns(df1, Data1Dropped)
    IN  IF ~({"Node Alias", "Alarm Time"} \subseteq df2.columns)
        THEN [exc |-> "KeyError", df |-> EmptyFrame]
        ELSE [exc |-> "", df |-> ToDatetimeColumn(DropNa(df2, {"Node Alias", "Alarm Time"}),
                                                  "Alarm Time")]

\* the result of data1_clean on a sheet: the exception it raises ("" when
\* none) and the frame it returns
data1_clean(sheet) ==
    LET df0 == read_excel(sheet, SkipRows1)
        df1 == RenameColumns(df0, Data1Renames)
        df2 == DropColumns(df1, Data1Dropped)
    IN  IF ~({"Node Alias", "Alarm Time"} \subseteq df2.columns)
        THEN [exc |-> "KeyError", df |-> EmptyFrame]
        ELSE LET df3 == DropNa(df2, {"Node Alias", "Alarm Time"})
                 df4 == ToDatetimeColumn(df3, "Alarm Time")
             IN  [exc |-> "", df |-> DropNa(df4, {"Alarm Time"})]

\* The alarm export: five title rows, the header row (empty above the
\* positional columns), then the data rows.
AlarmTitleRow == <<"Alarm Report", NaN, NaN, NaN, NaN, NaN, NaN>>

AlarmHeaderRow == <<NaN, NaN, NaN, "Host Name", NaN, "Description", NaN>>

AlarmDataRows ==
    {<<"1", ip, alias, "host", "Node Down", "text", t>> :
        ip \in {"10.0.0.1", "10.0.0.2"},
        alias \in {NaN, "A", "B"},
        t \in {NaN, "garbage", "2024-01-01", "2024-01-01 00:00:00", "2024-01-02"}}

AlarmSheets ==
    {[i \in 1..SkipRows1 |-> AlarmTitleRow] \o <<AlarmHeaderRow>> \o data :
        data \in SeqsUpTo(AlarmDataRows, MaxAlarmRows)}

\* the data rows of an alarm sheet, as sheet positions
AlarmDataPositions(sheet) == (SkipRows1 + 2)..Len(sheet)

----------------------------------------------------------------------------
(* Availability report cleaner: data2_clean. *)

HeaderRows2 == 5

\* the number parser, cell by cell: two spellings of one number give one
\* value, text that is no number gives NaN
Number(x) ==
    CASE x \in {"99", "99.0"} -> "99.0"
      [] x = "100" -> "100.0"
      [] x = "5" -> "5.0"
      [] x = "0" -> "0.0"
      [] OTHER -> NaN

\* pd.to_numeric(value, errors='coerce'): the number, NaN for a missing
\* cell and for text that is no number
to_numeric(x) == Number(x)

\* df[col] = pd.to_numeric(df[col], errors='coerce')
ToNumericColumn(df, col) ==
    [df EXCEPT !.rows = [k \in 1..Len(df.rows) |->
                            [df.rows[k] EXCEPT ![col] = to_numeric(@)]]]

Data2Renames ==
    [c \in {"Unnamed: 0", "Unnamed: 1", "Unnamed: 4", "Unnamed: 5", "Unnamed: 6"} |->
        CASE c = "Unnamed: 0" -> "Node Alias"
          [] c = "Unnamed: 1" -> "IP Address"
          [] c = "Unnamed: 4" -> "Availability"
          [] c = "Unnamed: 5" -> "Latency(msec)"
          [] c = "Unnamed: 6" -> "Packet Loss(%)"]

Data2Numeric == {"Packet Loss(%)", "Availability", "Latency(msec)"}

\* a dropna that looks at Availability alone
Data2DropNaAvailabilityOnly == {"Availability"}

\* subset of the final dropna
Data2DropNaSubset == Data2Numeric

\* df.drop([0, 1, 2, 3, 4], axis=0).reset_index(drop=True); a label that is
\* no row of the frame is a KeyError, checked by the caller
DropLeadingRows(df, n) == [df EXCEPT !.rows = SubSeq(df.rows, n + 1, Len(df.rows))]

data2_clean(sheet) ==
    LET df0 == read_excel(sheet, 0)
    IN  IF Len(df0.rows) < HeaderRows2
        THEN [exc |-> "KeyError", df |-> EmptyFrame]
        ELSE LET df1 == DropLeadingRows(df0, HeaderRows2)
                 df2 == DropColumns(df1, {"Unnamed: 2", "Unnamed: 3"})
                 df3 == RenameColumns(df2, Data2Renames)
             IN  IF ~(Data2Numeric \subseteq df3.columns)
                 THEN [exc |-> "KeyError", df |-> EmptyFrame]
                 ELSE LET df4 == ToNumericColumn(df3, "Packet Loss(%)")
                          df5 == ToNumericColumn(df4, "Availability")
                          df6 == ToNumericColumn(df5, "Latency(msec)")
                      IN  [exc |-> "", df |-> DropNa(df6, Data2DropNaSubset)]

\* The availability export: the header row (all cells empty), five rows of
\* report heading and totals, then the data rows.
AvailHeaderRow == <<NaN, NaN, NaN, NaN, NaN, NaN, NaN>>

AvailLeadRow == <<"All Nodes", NaN, NaN, NaN, "99", "5", "0">>

AvailDataRows ==
    {<<"N", ip, "x", "y", a, l, p>> :
        ip \in {"10.0.0.1", "10.0.0.2"},
        a \in {"99", "99.0", "100", "n/a"},
        l \in {"5", "n/a"},
        p \in {"0", NaN}}

AvailSheets ==
    {<<AvailHeaderRow>> \o [i \in 1..HeaderRows2 |-> AvailLeadRow] \o data :
        data \in SeqsUpTo(AvailDataRows, MaxAvailRows)}

AvailDataPositions(sheet) == (HeaderRows2 + 2)..Len(sheet)

----------------------------------------------------------------------------
(* Join and aggregation. *)

\* df[[...cols]]
SelectColumns(df, cols) ==
    [columns |-> cols,
     rows |-> [k \in 1..Len(df.rows) |-> [c \in cols |-> df.rows[k][c]]]]

\* the merge with how='inner': left rows without a match are dropped
InnerMergeOnIP(left, right) ==
    LET matches(l) == SelectSeq(right.rows, LAMBDA r : r["IP Address"] = l["IP Address"])
        joined(l) == [m \in 1..Len(matches(l)) |->
                         l @@ ("Availability" :> matches(l)[m]["Availability"])]
    IN  [columns |-> left.columns \cup {"Availability"},
         rows |-> Flatten([k \in 1..Len(left.rows) |-> joined(left.rows[k])])]

\* pd.merge(left, right, on='IP Address', how='left') for a right frame of
\* the columns IP Address and Availability: the left rows in their order,
\* each one once per right row with the same key, in the right frame's
\* order, or once with a missing Availability when no right row has its key
LeftMergeOnIP(left, right) ==
    LET matches(l) == SelectSeq(right.rows, LAMBDA r : r["IP Address"] = l["IP Address"])
        joined(l) ==
            IF matches(l) = <<>>
            THEN <<l @@ ("Availability" :> NaN)>>
            ELSE [m \in 1..Len(matches(l)) |->
                     l @@ ("Availability" :> matches(l)[m]["Availability"])]
    IN  [columns |-> left.columns \cup {"Availability"},
         rows |-> Flatten([k \in 1..Len(left.rows) |-> joined(left.rows[k])])]

\* the order groupby sorts the group keys in
NodeOrder == <<"A", "B", "C">>

\* Series.nunique() of a group's Alarm Time values
NUnique(values) == Cardinality(Range(values) \ {NaN, NaT})

\* Series.count() in place of Series.nunique()
RowCount(values) == Len(SelectSeq(values, LAMBDA v : v \notin {NaN, NaT}))

\* the statistic the aggregation takes of each group
GroupStat(values) == NUnique(values)

\* df.groupby('Node Alias')['Alarm Time'].nunique()
\*   .reset_index(name='Downtime Count')
DowntimeCount(df) ==
    LET keys == {r["Node Alias"] : r \in Range(df.rows)} \ {NaN}
        sorted == SelectSeq(NodeOrder, LAMBDA k : k \in keys)
        group(k) == SelectSeq(df.rows, LAMBDA r : r["Node Alias"] = k)
        times(k) == [i \in 1..Len(group(k)) |-> group(k)[i]["Alarm Time"]]
    IN  [columns |-> {"Node Alias", "Downtime Count"},
         rows |-> [i \in 1..Len(sorted) |->
                      [c \in {"Node Alias", "Downtime Count"} |->
                          IF c = "Node Alias" THEN sorted[i]
                          ELSE GroupStat(times(sorted[i]))]]]

\* DataFrame.to_dict('records')
to_dict_records(df) == df.rows

----------------------------------------------------------------------------
(* The callback: filter_data. *)

Buckets == {"1-3", "4-5", ">5", ">10", None, "all"}

Dates == {None, "2024-01-02"}

\* n_clicks of the button: None until the first click, then the click count
ClickValues == {None, "1"}

Truthy(x) == x \notin {None, ""}

TimestampOrder == <<"2024-01-01T00:00:00", "2024-01-02T00:00:00", "2024-01-03T00:00:00">>

TsRank(t) == CHOOSE i \in 1..Len(TimestampOrder) : TimestampOrder[i] = t

\* a <= b on timestamps; a comparison with NaT is False
TsLe(a, b) == a # NaT /\ b # NaT /\ TsRank(a) <= TsRank(b)

\* BucketFilter with the bounds of '1-3' and '4-5' read as exclusive
BucketFilterExclusive(df, downtime_value) ==
    LET keep(r) ==
            CASE downtime_value = "1-3" -> r["Downtime Count"] < 3
              [] downtime_value = "4-5" -> r["Downtime Count"] > 3 /\ r["Downtime Count"] < 5
              [] downtime_value = ">5" -> r["Downtime Count"] > 5
              [] downtime_value = ">10" -> r["Downtime Count"] > 10
              [] OTHER -> TRUE
    IN  [df EXCEPT !.rows = SelectSeq(df.rows, keep)]

\* df[df['Downtime Count'] ...] for the selected bucket
BucketFilter(df, downtime_value) ==
    LET keep(r) ==
            CASE downtime_value = "1-3" -> r["Downtime Count"] <= 3
              [] downtime_value = "4-5" -> r["Downtime Count"] > 3 /\ r["Downtime Count"] <= 5
              [] downtime_value = ">5" -> r["Downtime Count"] > 5
              [] downtime_value = ">10" -> r["Downtime Count"] > 10
              [] OTHER -> TRUE
    IN  [df EXCEPT !.rows = SelectSeq(df.rows, keep)]

\* the result of filter_data: the exception it raises ("" when none) and
\* the records it returns
filter_data(n_clicks, start_date, end_date, downtime_value, base) ==
    IF n_clicks = None
    THEN [exc |-> "", data |-> to_dict_records(base)]
    ELSE LET filtered_df == BucketFilter(base, downtime_value)
         IN  IF Truthy(start_date) /\ Truthy(end_date)
             THEN IF "Alarm Time" \notin filtered_df.columns
                  THEN [exc |-> "KeyError", data |-> <<>>]
                  ELSE [exc |-> "",
                        data |-> to_dict_records(
                            [filtered_df EXCEPT !.rows = SelectSeq(filtered_df.rows,
                                LAMBDA r : /\ TsLe(to_datetime(start_date), r["Alarm Time"])
                                           /\ TsLe(r["Alarm Time"], to_datetime(end_date)))])]
             ELSE [exc |-> "", data |-> to_dict_records(filtered_df)]

\* filter_data with filtered_df declared global and stored back
BaseAfterFilterStored(base, filtered) == filtered

\* the module global downtime_count after a filter_data call: the function
\* binds the local filtered_df and assigns to nothing else
BaseAfterFilter(base, filtered) == base

NoCall == [n_clicks |-> None, start_date |-> None, end_date |-> None, downtime_value |-> None]

NoLocate == [exc |-> "", path |-> Unset]

----------------------------------------------------------------------------
(* Startup: the module-level code, in statement order. *)

file1_pattern == <<"a", "b">>

file2_pattern == <<"b", "a">>

Init ==
    /\ pc = "locate"
    /\ exc = ""
    /\ file1_path = Unset
    /\ file2_path = Unset
    /\ df1_cleaned = EmptyFrame
    /\ df2_cleaned = EmptyFrame
    /\ merged_df = EmptyFrame
    /\ downtime_count = EmptyFrame
    /\ stdout = <<>>
    /\ table_data = [exc |-> "", data |-> <<>>]
    /\ call = NoCall
    /\ files = <<>>
    /\ pattern = <<>>
    /\ located = NoLocate
    /\ raw1 = <<>>
    /\ raw2 = <<>>

\* try: file1_path = ...; file2_path = ... except FileNotFoundError: print(e)
Locate ==
    /\ pc = "locate"
    /\ \E listing \in Listings :
          LET r1 == get_latest_file(file1_pattern, listing)
              r2 == get_latest_file(file2_pattern, listing)
          IN  /\ file1_path' = IF r1.exc = "" THEN r1.path ELSE file1_path
              /\ file2_path' = IF r1.exc = "" /\ r2.exc = "" THEN r2.path ELSE file2_path
              /\ stdout' = IF r1.exc = "" /\ r2.exc = "" THEN stdout
                           ELSE Append(stdout, "No files matching the pattern were found.")
    /\ pc' = "clean1"
    /\ UNCHANGED <<exc, df1_cleaned, df2_cleaned, merged_df, downtime_count,
                   table_data, call, files, pattern, located, raw1, raw2>>

\* what data1_clean and data2_clean can return for the file they read
Data1Results == {data1_clean(sheet) : sheet \in AlarmSheets}

Data2Results == {data2_clean(sheet) : sheet \in AvailSheets}

\* df1_cleaned = data1_clean(file1_path)
Clean1 ==
    /\ pc = "clean1"
    /\ IF file1_path = Unset
       THEN /\ exc' = "NameError"
            /\ pc' = "crashed"
            /\ UNCHANGED df1_cleaned
       ELSE \E r \in Data1Results :
                   /\ exc' = r.exc
                   /\ pc' = IF r.exc = "" THEN "clean2" ELSE "crashed"
                   /\ df1_cleaned' = IF r.exc = "" THEN r.df ELSE df1_cleaned
    /\ UNCHANGED <<file1_path, file2_path, df2_cleaned, merged_df, downtime_count,
                   stdout, table_data, call, files, pattern, located, raw1, raw2>>

\* df2_cleaned = data2_clean(file2_path)
Clean2 ==
    /\ pc = "clean2"
    /\ IF file2_path = Unset
       THEN /\ exc' = "NameError"
            /\ pc' = "crashed"
            /\ UNCHANGED df2_cleaned
       ELSE \E r \in Data2Results :
                   /\ exc' = r.exc
                   /\ pc' = IF r.exc = "" THEN "merge" ELSE "crashed"
                   /\ df2_cleaned' = IF r.exc = "" THEN r.df ELSE df2_cleaned
    /\ UNCHANGED <<file1_path, file2_path, df1_cleaned, merged_df, downtime_count,
                   stdout, table_data, call, files, pattern, located, raw1, raw2>>

\* merged_df = pd.merge(df1_cleaned, df2_cleaned[[...]], on='IP Address', how='left')
Merge ==
    /\ pc = "merge"
    /\ merged_df' = LeftMergeOnIP(df1_cleaned,
                                  SelectColumns(df2_cleaned, {"IP Address", "Availability"}))
    /\ pc' = "aggregate"
    /\ UNCHANGED <<exc, file1_path, file2_path, df1_cleaned, df2_cleaned, downtime_count,
                   stdout, table_data, call, files, pattern, located, raw1, raw2>>

\* downtime_count = merged_df.groupby(...)...
Aggregate ==
    /\ pc = "aggregate"
    /\ downtime_count' = DowntimeCount(merged_df)
    /\ pc' = "layout"
    /\ UNCHANGED <<exc, file1_path, file2_path, df1_cleaned, df2_cleaned, merged_df,
                   stdout, table_data, call, files, pattern, located, raw1, raw2>>

\* app.layout = ...: the table starts with every record of downtime_count
Layout ==
    /\ pc = "layout"
    /\ table_data' = [exc |-> "", data |-> to_dict_records(downtime_count)]
    /\ pc' = "serving"
    /\ UNCHANGED <<exc, file1_path, file2_path, df1_cleaned, df2_cleaned, merged_df,
                   downtime_count, stdout, call, files, pattern, located, raw1, raw2>>

Next == Locate \/ Clean1 \/ Clean2 \/ Merge \/ Aggregate \/ Layout

Spec == Init /\ [][Next]_vars

----------------------------------------------------------------------------
(* Serving: the dashboard after startup, for any summary table the         *)
(* aggregation can produce (nodes in sorted order, each with at least one  *)
(* alarm time).                                                            *)

SummaryFrame(nodes, count) ==
    LET sorted == SelectSeq(NodeOrder, LAMBDA k : k \in nodes)
    IN  [columns |-> {"Node Alias", "Downtime Count"},
         rows |-> [i \in 1..Len(sorted) |->
                      [c \in {"Node Alias", "Downtime Count"} |->
                          IF c = "Node Alias" THEN sorted[i] ELSE count[sorted[i]]]]]

SummaryFrames ==
    UNION {{SummaryFrame(nodes, count) : count \in [nodes -> 1..MaxCount]} :
              nodes \in SUBSET Range(NodeOrder)}

InitFilter ==
    /\ pc = "serving"
    /\ exc = ""
    /\ file1_path = Unset
    /\ file2_path = Unset
    /\ df1_cleaned = EmptyFrame
    /\ df2_cleaned = EmptyFrame
    /\ merged_df = EmptyFrame
    /\ downtime_count \in SummaryFrames
    /\ stdout = <<>>
    /\ table_data = [exc |-> "", data |-> to_dict_records(downtime_count)]
    /\ call = NoCall
    /\ files = <<>>
    /\ pattern = <<>>
    /\ located = NoLocate
    /\ raw1 = <<>>
    /\ raw2 = <<>>

\* one invocation of the callback, with the arguments Dash hands it
FilterCall ==
    /\ pc = "serving"
    /\ \E n \in ClickValues, s \in Dates, e \in Dates, v \in Buckets :
          /\ call' = [n_clicks |-> n, start_date |-> s, end_date |-> e, downtime_value |-> v]
          /\ table_data' = filter_data(n, s, e, v, downtime_count)
          /\ downtime_count' = BaseAfterFilter(downtime_count, BucketFilter(downtime_count, v))
    /\ UNCHANGED <<pc, exc, file1_path, file2_path, df1_cleaned, df2_cleaned, merged_df,
                   stdout, files, pattern, located, raw1, raw2>>

SpecFilter == InitFilter /\ [][FilterCall]_vars

----------------------------------------------------------------------------
(* The three file-facing functions on their own, for every input within    *)
(* the bounds.                                                             *)

InitLocate ==
    /\ pc = "call"
    /\ exc = ""
    /\ file1_path = Unset
    /\ file2_path = Unset
    /\ df1_cleaned = EmptyFrame
    /\ df2_cleaned = EmptyFrame
    /\ merged_df = EmptyFrame
    /\ downtime_count = EmptyFrame
    /\ stdout = <<>>
    /\ table_data = [exc |-> "", data |-> <<>>]
    /\ call = NoCall
    /\ files \in Listings
    /\ pattern \in Patterns
    /\ located = NoLocate
    /\ raw1 = <<>>
    /\ raw2 = <<>>

CallGetLatestFile ==
    /\ pc = "call"
    /\ located' = get_latest_file(pattern, files)
    /\ pc' = "returned"
    /\ UNCHANGED <<exc, file1_path, file2_path, df1_cleaned, df2_cleaned, merged_df,
                   downtime_count, stdout, table_data, call, files, pattern, raw1, raw2>>

SpecLocate == InitLocate /\ [][CallGetLatestFile]_vars

InitClean1 ==
    /\ pc = "call"
    /\ exc = ""
    /\ file1_path = Unset
    /\ file2_path = Unset
    /\ df1_cleaned = EmptyFrame
    /\ df2_cleaned = EmptyFrame
    /\ merged_df = EmptyFrame
    /\ downtime_count = EmptyFrame
    /\ stdout = <<>>
    /\ table_data = [exc |-> "", data |-> <<>>]
    /\ call = NoCall
    /\ files = <<>>
    /\ pattern = <<>>
    /\ located = NoLocate
    /\ raw1 \in AlarmSheets
    /\ raw2 = <<>>

CallData1Clean ==
    /\ pc = "call"
    /\ LET r == data1_clean(raw1)
       IN  /\ exc' = r.exc
           /\ df1_cleaned' = r.df
    /\ pc' = "returned"
    /\ UNCHANGED <<file1_path, file2_path, df2_cleaned, merged_df, downtime_count,
                   stdout, table_data, call, files, pattern, located, raw1, raw2>>

SpecClean1 == InitClean1 /\ [][CallData1Clean]_vars

InitClean2 ==
    /\ pc = "call"
    /\ exc = ""
    /\ file1_path = Unset
    /\ file2_path = Unset
    /\ df1_cleaned = EmptyFrame
    /\ df2_cleaned = EmptyFrame
    /\ merged_df = EmptyFrame
    /\ downtime_count = EmptyFrame
    /\ stdout = <<>>
    /\ table_data = [exc |-> "", data |-> <<>>]
    /\ call = NoCall
    /\ files = <<>>
    /\ pattern = <<>>
    /\ located = NoLocate
    /\ raw1 = <<>>
    /\ raw2 \in AvailSheets

CallData2Clean ==
    /\ pc = "call"
    /\ LET r == data2_clean(raw2)
       IN  /\ exc' = r.exc
           /\ df2_cleaned' = r.df
    /\ pc' = "returned"
    /\ UNCHANGED <<file1_path, file2_path, df1_cleaned, merged_df, downtime_count,
                   stdout, table_data, call, files, pattern, located, raw1, raw2>>

SpecClean2 == InitClean2 /\ [][CallData2Clean]_vars

----------------------------------------------------------------------------
(* Claims about filter_data, under SpecFilter. *)

Clicked == call.n_clicks # None

DateRangeGiven == Truthy(call.start_date) /\ Truthy(call.end_date)

\* the predicate the claim gives for a bucket value
InBucket(count, bucket) ==
    CASE bucket = "1-3" -> count <= 3
      [] bucket = "4-5" -> 3 < count /\ count <= 5
      [] bucket = ">5" -> count > 5
      [] bucket = ">10" -> count > 10
      [] OTHER -> TRUE

\* C1: a click with no date range returns, without failing, exactly the
\* rows of downtime_count whose count is in the selected bucket, in their
\* original order; any other bucket value returns every row.
C1_BucketRows ==
    (Clicked /\ ~DateRangeGiven) =>
        /\ table_data.exc = ""
        /\ table_data.data =
              SelectSeq(downtime_count.rows,
                        LAMBDA r : InBucket(r["Downtime Count"], call.downtime_value))

\* the summaries of the spec's example with three nodes, filtered on '4-5'
C1_Witness ==
    /\ Clicked /\ ~DateRangeGiven
    /\ call.downtime_value = "4-5"
    /\ Len(downtime_count.rows) = 3
    /\ downtime_count.rows[1]["Downtime Count"] = 3
    /\ downtime_count.rows[2]["Downtime Count"] = 5
    /\ downtime_count.rows[3]["Downtime Count"] = 11
    /\ Len(table_data.data) = 1

\* C5: a click with both dates supplied returns the same rows as the same
\* click with no date range, and does not fail.
C5_DateRangeNoOp ==
    (Clicked /\ DateRangeGiven) =>
        table_data = filter_data(call.n_clicks, None, None, call.downtime_value,
                                 downtime_count)

\* C6: a filter_data call leaves downtime_count as it was, and what it
\* returns is decided by its arguments and that table alone.
C6_BaseUnchanged ==
    [][pc = "serving" =>
          /\ downtime_count' = downtime_count
          /\ table_data' = filter_data(call'.n_clicks, call'.start_date, call'.end_date,
                                       call'.downtime_value, downtime_count)]_vars

\* a call that filtered rows away, after an earlier call that filtered too
C6_Witness ==
    /\ Clicked
    /\ call.downtime_value = ">5"
    /\ table_data.exc = ""
    /\ Len(table_data.data) = 1
    /\ Len(downtime_count.rows) = 3

----------------------------------------------------------------------------
(* Claims about the startup pipeline, under Spec. *)

Aggregated == pc \in {"layout", "serving"}

Merged == pc \in {"aggregate", "layout", "serving"}

AlarmNodes == {r["Node Alias"] : r \in Range(df1_cleaned.rows)}

AlarmTimesOf(node) ==
    {r["Alarm Time"] : r \in {x \in Range(df1_cleaned.rows) : x["Node Alias"] = node}}

\* C2: downtime_count has exactly one row per distinct Node Alias of the
\* cleaned alarm records and none for any other alias, and the row's
\* Downtime Count is the number of distinct Alarm Time values of that node.
C2_OneRowPerNodeDistinctTimes ==
    Aggregated =>
        /\ {r["Node Alias"] : r \in Range(downtime_count.rows)} = AlarmNodes
        /\ Len(downtime_count.rows) = Cardinality(AlarmNodes)
        /\ \A r \in Range(downtime_count.rows) :
              r["Downtime Count"] = Cardinality(AlarmTimesOf(r["Node Alias"]))

\* two alarm rows of one node with the same timestamp, counted once
C2_Witness ==
    /\ Aggregated
    /\ Len(df1_cleaned.rows) = 2
    /\ df1_cleaned.rows[1]["Node Alias"] = df1_cleaned.rows[2]["Node Alias"]
    /\ df1_cleaned.rows[1]["Alarm Time"] = df1_cleaned.rows[2]["Alarm Time"]
    /\ Len(downtime_count.rows) = 1
    /\ downtime_count.rows[1]["Downtime Count"] = 1

\* C3: every alarm record appears in merged_df exactly once, in place, with
\* one Availability value attached, missing when no availability record has
\* its IP Address.
C3_NoFanOut ==
    Merged =>
        /\ Len(merged_df.rows) = Len(df1_cleaned.rows)
        /\ \A k \in 1..Len(df1_cleaned.rows) :
              /\ \A c \in df1_cleaned.columns : merged_df.rows[k][c] = df1_cleaned.rows[k][c]
              /\ (merged_df.rows[k]["Availability"] = NaN) <=>
                    (\A a \in Range(df2_cleaned.rows) :
                        a["IP Address"] # df1_cleaned.rows[k]["IP Address"])

LocateFailed == pc # "locate" /\ (file1_path = Unset \/ file2_path = Unset)

\* C4: when a pattern has no match the locate fails with FileNotFoundError
\* and the startup goes no further: from then on it can only end, and no
\* cleaning, join, aggregation or layout step runs while file1_path or
\* file2_path is undefined.
C4_StartupStopsAfterFailedLocate ==
    [][LocateFailed =>
          /\ pc' \in {pc, "crashed"}
          /\ UNCHANGED <<df1_cleaned, df2_cleaned, merged_df, downtime_count, table_data>>]_vars

NoAvailability == [columns |-> {"IP Address", "Availability"}, rows |-> <<>>]

\* C10: the summary is the one the same alarm records give with an empty
\* availability dataset, whatever availability dataset was loaded, and so
\* is what filter_data returns for every bucket.
C10_SummaryIgnoresAvailability ==
    Aggregated =>
        LET reference == DowntimeCount(LeftMergeOnIP(df1_cleaned, NoAvailability))
        IN  /\ downtime_count = reference
            /\ \A v \in Buckets :
                  filter_data("1", None, None, v, downtime_count)
                      = filter_data("1", None, None, v, reference)

\* an availability dataset with a duplicated IP Address that an alarm has,
\* and an alarm whose IP Address it lacks
C10_Witness ==
    /\ Aggregated
    /\ Len(df2_cleaned.rows) = 2
    /\ df2_cleaned.rows[1]["IP Address"] = df2_cleaned.rows[2]["IP Address"]
    /\ Len(df1_cleaned.rows) = 2
    /\ df1_cleaned.rows[1]["IP Address"] = df2_cleaned.rows[1]["IP Address"]
    /\ df1_cleaned.rows[2]["IP Address"] # df2_cleaned.rows[1]["IP Address"]
    /\ Len(merged_df.rows) = 3

----------------------------------------------------------------------------
(* Claims about the cleaners and the locator, under SpecClean1, SpecClean2 *)
(* and SpecLocate.                                                         *)

Returned == pc = "returned"

\* the k-th smallest element of a set of sheet positions
Nth(positions, k) == CHOOSE p \in positions : Cardinality({q \in positions : q < p}) = k - 1

\* data rows of the alarm sheet with a Node Alias and an Alarm Time that parses
GoodAlarmPositions ==
    {p \in AlarmDataPositions(raw1) :
        /\ raw1[p][3] # NaN
        /\ raw1[p][7] # NaN
        /\ Timestamp(raw1[p][7]) # NaT}

\* C7: data1_clean does not raise; every row it returns has a Node Alias
\* and a valid Alarm Time; the rows it returns are the data rows that have
\* a Node Alias and a parseable Alarm Time, all of them, in sheet order.
C7_AlarmRowsCleaned ==
    Returned =>
        /\ exc = ""
        /\ \A r \in Range(df1_cleaned.rows) :
              /\ r["Node Alias"] \notin {NaN, ""}
              /\ r["Alarm Time"] \in Range(TimestampOrder)
        /\ Len(df1_cleaned.rows) = Cardinality(GoodAlarmPositions)
        /\ \A k \in 1..Len(df1_cleaned.rows) :
              LET src == raw1[Nth(GoodAlarmPositions, k)]
                  out == df1_cleaned.rows[k]
              IN  /\ out["IP Address"] = src[2]
                  /\ out["Node Alias"] = src[3]
                  /\ out["Alarm Time"] = Timestamp(src[7])

\* a sheet whose first data row has an Alarm Time that does not parse and
\* whose second is sound
C7_Witness ==
    /\ Returned
    /\ Len(raw1) = SkipRows1 + 3
    /\ raw1[SkipRows1 + 2][3] = "A"
    /\ raw1[SkipRows1 + 2][7] = "garbage"
    /\ raw1[SkipRows1 + 3][7] = "2024-01-02"
    /\ raw1[SkipRows1 + 3][3] = "B"
    /\ Len(df1_cleaned.rows) = 1

\* data rows of the availability sheet whose three metrics are numbers
GoodAvailPositions ==
    {p \in AvailDataPositions(raw2) :
        /\ Number(raw2[p][5]) # NaN
        /\ Number(raw2[p][6]) # NaN
        /\ Number(raw2[p][7]) # NaN}

\* C8: every row data2_clean returns has Availability, Latency(msec) and
\* Packet Loss(%) that are numbers; the rows it returns are the data rows
\* whose three metrics all coerce, all of them, in sheet order.
C8_AvailRowsCleaned ==
    Returned =>
        /\ exc = ""
        /\ \A r \in Range(df2_cleaned.rows) : \A c \in Data2Numeric : r[c] # NaN
        /\ Len(df2_cleaned.rows) = Cardinality(GoodAvailPositions)
        /\ \A k \in 1..Len(df2_cleaned.rows) :
              LET src == raw2[Nth(GoodAvailPositions, k)]
                  out == df2_cleaned.rows[k]
              IN  /\ out["IP Address"] = src[2]
                  /\ out["Availability"] = Number(src[5])
                  /\ out["Latency(msec)"] = Number(src[6])
                  /\ out["Packet Loss(%)"] = Number(src[7])

\* a sheet whose first data row has a Latency that is no number (its other
\* metrics are) and whose second is sound
C8_Witness ==
    /\ Returned
    /\ Len(raw2) = HeaderRows2 + 3
    /\ raw2[HeaderRows2 + 2][5] = "99"
    /\ raw2[HeaderRows2 + 2][6] = "n/a"
    /\ raw2[HeaderRows2 + 2][7] = "0"
    /\ raw2[HeaderRows2 + 3][5] = "100"
    /\ raw2[HeaderRows2 + 3][6] = "5"
    /\ raw2[HeaderRows2 + 3][7] = "0"
    /\ Len(df2_cleaned.rows) = 1

\* the pattern matches the name from its start
PrefixMatches(pat, name) ==
    /\ Len(name) >= Len(pat)
    /\ \A i \in 1..Len(pat) : pat[i] \in {".", name[i]}

MatchingEntries == {e \in Range(files) : PrefixMatches(pattern, e.name)}

\* C9: get_latest_file returns the path of an entry whose name the pattern
\* matches from its start and whose creation time is the latest among the
\* matching entries; with no matching entry it fails with
\* FileNotFoundError and returns no path.
C9_LatestMatching ==
    Returned =>
        IF MatchingEntries = {}
        THEN located.exc = "FileNotFoundError" /\ located.path = Unset
        ELSE /\ located.exc = ""
             /\ \E e \in MatchingEntries :
                   /\ located.path = DownloadsPath \o e.name
                   /\ \A other \in MatchingEntries : other.ctime <= e.ctime

\* a name longer than the pattern is returned although a newer entry that
\* does not match is listed
C9_Witness ==
    /\ Returned
    /\ pattern = <<"a">>
    /\ Len(files) = 2
    /\ files[1].name = <<"a", "b">> /\ files[1].ctime = 1
    /\ files[2].name = <<"b">> /\ files[2].ctime = 2
    /\ located.exc = ""
    /\ located.path = DownloadsPath \o <<"a", "b">>

====
